---- MODULE Spec2Model ----
(***************************************************************************)
(* Model of src/09-mcp/client-remote-mcp.py: the coroutine                 *)
(* remote_mcp_example(), one `async with` statement with two items         *)
(* followed by one awaited query and one print.                            *)
(*                                                                         *)
(* Python evaluates the items of a with statement left to right, each      *)
(* item's expression first and its __aenter__ second, and unwinds the      *)
(* entered managers innermost first.  An exception raised while item k is  *)
(* evaluated or entered exits items 1..k-1 only.  The collaborators        *)
(* (MCPStreamableHTTPTool, AzureCliCredential, AzureOpenAIChatClient,      *)
(* ChatAgent) are external: every call into them on the way in either     *)
(* returns or raises one of Errors.  Their __aexit__ is taken to follow    *)
(* the context-manager contract the source relies on ("ensure proper       *)
(* resource cleanup"): it completes and returns a false value, so the      *)
(* exception in flight keeps propagating.                                  *)
(***************************************************************************)
EXTENDS Naturals, Sequences, FiniteSets

\* Largest identifier of the response values agent.run may return.
MaxResult == 2
\* Largest number of times the event loop takes control from the coroutine.
MaxYields == 2

VARIABLES pc, exc, entered, cred, result, stdout, log, suspended, nyield, outcome

vars == <<pc, exc, entered, cred, result, stdout, log, suspended, nyield, outcome>>

\* Failures the docstring names: network connectivity, authentication,
\* Azure service availability.
Errors == {"ConnectionError", "AuthenticationError", "BackendError"}

\* Values agent.run may return (0 stands for "no result bound yet").
Results == 1..MaxResult

\* The steps of the coroutine, in evaluation order.
Steps == <<"ToolNew", "ToolAEnter", "CredNew", "ClientNew", "AgentNew",
           "AgentAEnter", "AgentRun", "PrintResult", "AgentAExit", "ToolAExit">>

\* Steps written with await (the items of `async with` on the way in and on
\* the way out, and the awaited agent.run).
AwaitPointsWithPrint == {"ToolAEnter", "AgentAEnter", "AgentRun", "PrintResult",
                         "AgentAExit", "ToolAExit"}

AwaitPoints == {"ToolAEnter", "AgentAEnter", "AgentRun", "AgentAExit", "ToolAExit"}

Ev(op, res) == [op |-> op, res |-> res]

\* Where control goes when the body or a later item leaves the with
\* statement: the __aexit__ of the innermost entered manager.
ExitTargetOuterFirst(stk) ==
    IF stk = <<>> THEN "Done"
    ELSE IF Head(stk) = "agent" THEN "AgentAExit" ELSE "ToolAExit"

ExitTarget(stk) ==
    IF stk = <<>> THEN "Done"
    ELSE IF stk[Len(stk)] = "agent" THEN "AgentAExit" ELSE "ToolAExit"

\* What asyncio.run observes when the coroutine finishes.
Finish(e) == IF e = "none" THEN "returned" ELSE e

Init ==
    /\ pc = "ToolNew"
    /\ exc = "none"
    /\ entered = <<>>
    /\ cred = "none"
    /\ result = 0
    /\ stdout = <<>>
    /\ log = <<>>
    /\ suspended = FALSE
    /\ nyield = 0
    /\ outcome = "running"

\* A step that returns: control moves to the next step.
Return(op, next) ==
    /\ pc' = next
    /\ log' = Append(log, Ev(op, "ok"))
    /\ UNCHANGED <<exc, outcome>>

\* A step that raises e: the entered managers are unwound; with none
\* entered the exception leaves the coroutine at once.
Raise(op, e) ==
    /\ exc' = e
    /\ log' = Append(log, Ev(op, e))
    /\ pc' = ExitTarget(entered)
    /\ outcome' = IF entered = <<>> THEN Finish(e) ELSE outcome

\* The coroutine yields to the event loop inside an awaited call.
Suspend ==
    /\ pc \in AwaitPoints
    /\ ~suspended
    /\ nyield < MaxYields
    /\ suspended' = TRUE
    /\ nyield' = nyield + 1
    /\ UNCHANGED <<pc, exc, entered, cred, result, stdout, log, outcome>>

\* The event loop resumes the coroutine.
Resume ==
    /\ suspended
    /\ suspended' = FALSE
    /\ UNCHANGED <<pc, exc, entered, cred, result, stdout, log, nyield, outcome>>

\* MCPStreamableHTTPTool(name=..., url=...)
ToolNew ==
    /\ pc = "ToolNew" /\ ~suspended
    /\ \/ Return("ToolNew", "ToolAEnter")
       \/ \E e \in Errors : Raise("ToolNew", e)
    /\ UNCHANGED <<entered, cred, result, stdout, suspended, nyield>>

\* await MCPStreamableHTTPTool.__aenter__(), bound to mcp_server
ToolAEnterSwallow ==
    /\ pc = "ToolAEnter" /\ ~suspended
    /\ \/ /\ Return("ToolAEnter", "CredNew")
          /\ entered' = Append(entered, "tool")
       \/ \E e \in Errors :
            /\ pc' = "CredNew"
            /\ log' = Append(log, Ev("ToolAEnter", e))
            /\ UNCHANGED <<exc, outcome, entered>>
    /\ UNCHANGED <<cred, result, stdout, suspended, nyield>>

ToolAEnter ==
    /\ pc = "ToolAEnter" /\ ~suspended
    /\ \/ /\ Return("ToolAEnter", "CredNew")
          /\ entered' = Append(entered, "tool")
       \/ \E e \in Errors :
            /\ Raise("ToolAEnter", e)
            /\ UNCHANGED entered
    /\ UNCHANGED <<cred, result, stdout, suspended, nyield>>

\* AzureCliCredential()
CredNewSwallow ==
    /\ pc = "CredNew" /\ ~suspended
    /\ \/ /\ Return("CredNew", "ClientNew")
          /\ cred' = "live"
       \/ \E e \in Errors :
            /\ pc' = "ClientNew"
            /\ log' = Append(log, Ev("CredNew", e))
            /\ UNCHANGED <<exc, outcome, cred>>
    /\ UNCHANGED <<entered, result, stdout, suspended, nyield>>

CredNew ==
    /\ pc = "CredNew" /\ ~suspended
    /\ \/ /\ Return("CredNew", "ClientNew")
          /\ cred' = "live"
       \/ \E e \in Errors :
            /\ Raise("CredNew", e)
            /\ UNCHANGED cred
    /\ UNCHANGED <<entered, result, stdout, suspended, nyield>>

\* AzureOpenAIChatClient(credential=...)
ClientNew ==
    /\ pc = "ClientNew" /\ ~suspended
    /\ \/ Return("ClientNew", "AgentNew")
       \/ \E e \in Errors : Raise("ClientNew", e)
    /\ UNCHANGED <<entered, cred, result, stdout, suspended, nyield>>

\* ChatAgent(chat_client=..., name=..., instructions=...)
AgentNewLeak ==
    /\ pc = "AgentNew" /\ ~suspended
    /\ \/ Return("AgentNew", "AgentAEnter")
       \/ \E e \in Errors :
            /\ exc' = e
            /\ log' = Append(log, Ev("AgentNew", e))
            /\ pc' = "Done"
            /\ outcome' = Finish(e)
    /\ UNCHANGED <<entered, cred, result, stdout, suspended, nyield>>

AgentNew ==
    /\ pc = "AgentNew" /\ ~suspended
    /\ \/ Return("AgentNew", "AgentAEnter")
       \/ \E e \in Errors : Raise("AgentNew", e)
    /\ UNCHANGED <<entered, cred, result, stdout, suspended, nyield>>

\* await ChatAgent.__aenter__(), bound to agent
AgentAEnter ==
    /\ pc = "AgentAEnter" /\ ~suspended
    /\ \/ /\ Return("AgentAEnter", "AgentRun")
          /\ entered' = Append(entered, "agent")
       \/ \E e \in Errors :
            /\ Raise("AgentAEnter", e)
            /\ UNCHANGED entered
    /\ UNCHANGED <<cred, result, stdout, suspended, nyield>>

\* result = await agent.run("What is ...", tools=mcp_server)
AgentRunRetry ==
    /\ pc = "AgentRun" /\ ~suspended
    /\ \/ \E r \in Results :
            /\ Return("AgentRun", "PrintResult")
            /\ result' = r
       \/ \E e \in Errors :
            /\ IF Len(SelectSeq(log, LAMBDA x : x.op = "AgentRun")) = 0
               THEN /\ pc' = "AgentRun"
                    /\ log' = Append(log, Ev("AgentRun", e))
                    /\ UNCHANGED <<exc, outcome>>
               ELSE Raise("AgentRun", e)
            /\ UNCHANGED result
    /\ UNCHANGED <<entered, cred, stdout, suspended, nyield>>

AgentRunNoCleanup ==
    /\ pc = "AgentRun" /\ ~suspended
    /\ \/ \E r \in Results :
            /\ Return("AgentRun", "PrintResult")
            /\ result' = r
       \/ \E e \in Errors :
            /\ exc' = e
            /\ log' = Append(log, Ev("AgentRun", e))
            /\ pc' = "Done"
            /\ outcome' = Finish(e)
            /\ UNCHANGED result
    /\ UNCHANGED <<entered, cred, stdout, suspended, nyield>>

AgentRun ==
    /\ pc = "AgentRun" /\ ~suspended
    /\ \/ \E r \in Results :
            /\ Return("AgentRun", "PrintResult")
            /\ result' = r
       \/ \E e \in Errors :
            /\ Raise("AgentRun", e)
            /\ UNCHANGED result
    /\ UNCHANGED <<entered, cred, stdout, suspended, nyield>>

\* print(result); leaving the body normally runs the innermost __aexit__.
PrintResultTwice ==
    /\ pc = "PrintResult" /\ ~suspended
    /\ stdout' = stdout \o <<result, result>>
    /\ log' = Append(log, Ev("PrintResult", "ok"))
    /\ pc' = ExitTarget(entered)
    /\ UNCHANGED <<exc, entered, cred, result, suspended, nyield, outcome>>

PrintResult ==
    /\ pc = "PrintResult" /\ ~suspended
    /\ stdout' = Append(stdout, result)
    /\ log' = Append(log, Ev("PrintResult", "ok"))
    /\ pc' = ExitTarget(entered)
    /\ UNCHANGED <<exc, entered, cred, result, suspended, nyield, outcome>>

\* The exit of the manager on top of the stack: it is removed, and control
\* goes to the next enclosing manager or out of the coroutine.
Exit(op, m) ==
    /\ entered # <<>>
    /\ entered' = SelectSeq(entered, LAMBDA x : x # m)
    /\ log' = Append(log, Ev(op, "ok"))
    /\ pc' = ExitTarget(entered')
    /\ outcome' = IF entered' = <<>> THEN Finish(exc') ELSE outcome

\* await agent.__aexit__(...)
AgentAExitSuppress ==
    /\ pc = "AgentAExit" /\ ~suspended
    /\ exc' = "none"
    /\ Exit("AgentAExit", "agent")
    /\ UNCHANGED <<cred, result, stdout, suspended, nyield>>

AgentAExitClosesCredential ==
    /\ pc = "AgentAExit" /\ ~suspended
    /\ exc' = exc
    /\ Exit("AgentAExit", "agent")
    /\ cred' = IF cred = "live" THEN "released" ELSE cred
    /\ UNCHANGED <<result, stdout, suspended, nyield>>

AgentAExit ==
    /\ pc = "AgentAExit" /\ ~suspended
    /\ exc' = exc
    /\ Exit("AgentAExit", "agent")
    /\ UNCHANGED <<cred, result, stdout, suspended, nyield>>

\* await mcp_server.__aexit__(...)
ToolAExit ==
    /\ pc = "ToolAExit" /\ ~suspended
    /\ exc' = exc
    /\ Exit("ToolAExit", "tool")
    /\ UNCHANGED <<cred, result, stdout, suspended, nyield>>

Next ==
    \/ ToolNew
    \/ ToolAEnter
    \/ CredNew
    \/ ClientNew
    \/ AgentNew
    \/ AgentAEnter
    \/ AgentRun
    \/ PrintResult
    \/ AgentAExit
    \/ ToolAExit
    \/ Suspend
    \/ Resume

Spec == Init /\ [][Next]_vars

TypeOK ==
    /\ pc \in {Steps[i] : i \in 1..Len(Steps)} \cup {"Done"}
    /\ exc \in Errors \cup {"none"}
    /\ cred \in {"none", "live", "released"}
    /\ result \in 0..MaxResult
    /\ suspended \in BOOLEAN
    /\ nyield \in 0..MaxYields
    /\ outcome \in Errors \cup {"running", "returned"}

----------------------------------------------------------------------------
\* Reading the event log.
Idx(op) == {i \in 1..Len(log) : log[i].op = op}
Count(op) == Cardinality(Idx(op))
Succeeded(op) == \E i \in Idx(op) : log[i].res = "ok"
Failed(op) == \E i \in Idx(op) : log[i].res # "ok"
First(op) == CHOOSE i \in Idx(op) : \A j \in Idx(op) : i <= j
Before(a, b) == Idx(a) # {} /\ Idx(b) # {} /\ First(a) < First(b)

\* C1: a finished run that entered both the tool connection and the agent
\* has closed both, whether agent.run returned or raised.
C1_BothClosedAtEnd ==
    (pc = "Done" /\ Succeeded("ToolAEnter") /\ Succeeded("AgentAEnter"))
        => /\ entered = <<>>
           /\ Count("AgentAExit") = 1
           /\ Count("ToolAExit") = 1

C1_Witness ==
    /\ pc = "Done"
    /\ Failed("AgentRun")
    /\ Count("AgentAExit") = 1 /\ Count("ToolAExit") = 1

\* C2 as stated: when the credential (or the chat client built from it)
\* cannot be acquired, the tool connection was never opened and agent.run
\* was never called.
C2_Original ==
    (Failed("CredNew") \/ Failed("ClientNew"))
        => (Count("ToolAEnter") = 0 /\ Count("AgentRun") = 0)

\* C2 amended: when the credential (or the chat client) cannot be acquired,
\* the tool connection has already been opened; the agent is never
\* constructed, the query is never attempted, and the tool connection is
\* closed by the time the run ends.
C2_Amended ==
    (Failed("CredNew") \/ Failed("ClientNew"))
        => /\ Succeeded("ToolAEnter")
           /\ Count("AgentNew") = 0
           /\ Count("AgentAEnter") = 0
           /\ Count("AgentRun") = 0
           /\ (pc = "Done" => (Count("ToolAExit") = 1 /\ outcome \in Errors))

C2_Witness ==
    /\ pc = "Done"
    /\ Failed("CredNew")
    /\ Before("ToolAEnter", "CredNew")
    /\ Before("CredNew", "ToolAExit")

\* C3: when entering the tool connection raises, the run aborts with that
\* error; nothing after it is evaluated: no credential, no ChatAgent, no
\* agent entry, no agent.run, no print.
C3_ToolOpenFailureAborts ==
    Failed("ToolAEnter")
        => /\ pc = "Done" /\ outcome \in Errors
           /\ Count("CredNew") = 0
           /\ Count("AgentNew") = 0
           /\ Count("AgentAEnter") = 0
           /\ Count("AgentRun") = 0
           /\ Count("PrintResult") = 0
           /\ stdout = <<>>

C3_Witness ==
    /\ Failed("ToolAEnter")
    /\ outcome = "ConnectionError"

\* C4: whenever both managers were entered, the agent's exit comes strictly
\* before the tool connection's exit, after a result and after a raise.
C4_ReverseReleaseOrder ==
    /\ (Succeeded("AgentAEnter") /\ Count("ToolAExit") > 0)
          => Before("AgentAExit", "ToolAExit")
    /\ (Succeeded("AgentAEnter") /\ pc = "Done")
          => Before("AgentAExit", "ToolAExit")

C4_Witness ==
    /\ pc = "Done"
    /\ Succeeded("AgentRun")
    /\ Before("AgentAExit", "ToolAExit")

\* C5: once agent.run has returned, the output is exactly that result, once;
\* the print precedes both exits; the run then returns normally; no run
\* prints more than once.
C5_PrintsResultOnce ==
    /\ Len(stdout) <= 1
    /\ Count("PrintResult") <= 1
    /\ (Succeeded("AgentRun") /\ pc # "PrintResult")
          => (stdout = <<result>> /\ result \in Results /\ Count("PrintResult") = 1)
    /\ Count("AgentAExit") > 0 /\ Succeeded("AgentRun")
          => Before("PrintResult", "AgentAExit")
    /\ Count("ToolAExit") > 0 /\ Succeeded("AgentRun")
          => Before("PrintResult", "ToolAExit")
    /\ (Succeeded("AgentRun") /\ pc = "Done") => outcome = "returned"

C5_Witness ==
    /\ pc = "Done"
    /\ outcome = "returned"
    /\ result \in Results
    /\ stdout = <<result>>

\* C6: no step is attempted twice; a finished run that entered both managers
\* called agent.run exactly once.
C6_NoRetry ==
    /\ \A i \in 1..Len(Steps) : Count(Steps[i]) <= 1
    /\ (pc = "Done" /\ Succeeded("ToolAEnter") /\ Succeeded("AgentAEnter"))
          => Count("AgentRun") = 1

C6_Witness ==
    /\ pc = "Done"
    /\ Failed("AgentRun")
    /\ Count("AgentRun") = 1
    /\ exc = "BackendError"

\* C7 as stated: a finished run that created a credential has released it.
C7_Original ==
    (pc = "Done" /\ cred # "none") => cred = "released"

\* C7 amended: only the tool connection and the agent are released at scope
\* exit; the credential, once created, is never released by the runner and
\* is still unreleased when the run ends, on every path.
C7_Amended ==
    /\ cred # "released"
    /\ Succeeded("CredNew") => cred = "live"
    /\ pc = "Done" => entered = <<>>

C7_Witness ==
    /\ pc = "Done"
    /\ cred = "live"
    /\ exc # "none"
    /\ Count("AgentAExit") = 1

\* C8 as stated: the coroutine is only ever suspended inside agent.run.
C8_Original ==
    suspended => pc = "AgentRun"

\* C8 amended: the coroutine can be suspended at five steps, entering the
\* tool connection, entering the agent, agent.run, exiting the agent and
\* exiting the tool connection, and at no other (the constructors, print).
C8_Amended ==
    suspended => pc \in {"ToolAEnter", "AgentAEnter", "AgentRun",
                         "AgentAExit", "ToolAExit"}

C8_Witness ==
    /\ suspended
    /\ pc = "ToolAExit"
    /\ nyield > 1

\* C9: a failure at any step ends the run with that same error, after the
\* entered managers were exited; a failed run prints nothing and never
\* returns normally.
C9_FailurePropagates ==
    \A i \in 1..Len(log) :
        log[i].res # "ok"
            => /\ exc = log[i].res
               /\ stdout = <<>>
               /\ outcome # "returned"
               /\ (pc = "Done" => (outcome = log[i].res /\ entered = <<>>))
               /\ (outcome # "running" => pc = "Done")

C9_Witness ==
    /\ pc = "Done"
    /\ Failed("AgentAEnter")
    /\ outcome = "AuthenticationError"
    /\ Count("ToolAExit") = 1

\* C10: when a setup step after the tool connection was opened fails, the
\* tool connection is closed before the error leaves the coroutine, the
\* agent's exit is never invoked and agent.run is never called.
C10_LaterSetupFailureClosesTool ==
    (Failed("CredNew") \/ Failed("ClientNew") \/ Failed("AgentNew") \/ Failed("AgentAEnter"))
        => /\ Count("AgentAExit") = 0
           /\ Count("AgentRun") = 0
           /\ (outcome # "running" => (Count("ToolAExit") = 1 /\ entered = <<>>))
           /\ (pc = "Done" => outcome # "running")

C10_Witness ==
    /\ pc = "Done"
    /\ Failed("AgentNew")
    /\ Count("ToolAExit") = 1
    /\ Count("AgentAExit") = 0
====
